---------------------------- MODULE Spec2Model ----------------------------
(***************************************************************************)
(* Position indexing and aggregation of the scripture cross-reference      *)
(* exports: export_books.py, export_crossrefs.py, export_top_verses.py.    *)
(*                                                                         *)
(* The 73-book canonical list is scaled down to three books whose ids the  *)
(* sources name (TOB, MAL, MAT), plus one id outside the canon (XXX).      *)
(* Each component is checked under a specification of its own; the         *)
(* variables a specification does not use stay at their initial value.     *)
(***************************************************************************)
EXTENDS Integers, Sequences, FiniteSets, TLC

VARIABLES
    pc,              \* position of the operation under check
    verse_counts,    \* dict book id -> verse count (result of the count query)
    books,           \* list built by calculate_book_positions
    output,          \* the dataset export_books serialises
    verse_stream,    \* rows of the verse enumeration, in the order returned
    verse_positions, \* dict verse id -> position (build_verse_positions)
    store_edges,     \* CROSS_REFERENCES edges the graph store holds
    source_filter,   \* the source_filter argument of the query
    crossrefs,       \* list returned by query_crossrefs
    ot_to_nt,        \* first list returned by filter_cross_testament
    nt_to_ot,        \* second list returned by filter_cross_testament
    top_store,       \* edges (with passage groups) the graph store holds
    direction,       \* the direction argument of get_top_verses_per_book
    top_n,           \* TOP_N_PER_BOOK: {} for None, {n} for the limit n
    top_verses,      \* dict book id -> ranked aggregates (verses_data)
    lookup_store,    \* the store's edges when the member lookups run
    first_expansion, \* verses_data as the first expand_passage_groups left it
    run_kind,        \* the export script that runs
    lookups,         \* passage groups to expand, first and second direction
    ip,              \* index of the run's next step
    files            \* output file name -> "absent", "old" or "new"

xvars == <<store_edges, source_filter, crossrefs, ot_to_nt, nt_to_ot>>

tvars == <<top_store, direction, top_n, top_verses, lookup_store,
           first_expansion>>

rvars == <<run_kind, lookups, ip, files>>

vars == <<pc, verse_counts, books, output, verse_stream, verse_positions,
          xvars, tvars, rvars>>

(***************************************************************************)
(* Bounds of the model.                                                    *)
(***************************************************************************)
MaxCount == 2      \* largest verse count of one book in a count mapping
MaxVerses == 3     \* most verses in the corpus the indexer enumerates
MaxChapter == 2    \* chapters are 1..MaxChapter
MaxVerseNo == 2    \* verse numbers are 1..MaxVerseNo
MaxEdges == 2      \* most cross-reference edges in the store
MaxTopEdges == 3   \* most edges in the store of the top-verses export
MaxTopN == 2       \* top-N limits are 0..MaxTopN
MaxLookups == 2    \* most passage groups one expand_passage_groups call fetches

(***************************************************************************)
(* Book order index (module level of the three export scripts).            *)
(***************************************************************************)
NoneVal == "None"

\* BOOK_ORDER, scaled down: Tobit precedes Malachi, Malachi is the last OT
\* book and Matthew the first NT book.
BOOK_ORDER == <<"TOB", "MAL", "MAT">>

\* A book id the store may hold that is not in the canonical order.
AllBooks == {"TOB", "MAL", "MAT", "XXX"}

\* Index of the last OT book in BOOK_ORDER (46 of 73 in the source).
OtEnd == 2

OT_BOOKS == {BOOK_ORDER[i] : i \in 1..OtEnd}

NT_BOOKS == {BOOK_ORDER[i] : i \in (OtEnd + 1)..Len(BOOK_ORDER)}

DEUTEROCANONICAL_BOOKS == {"TOB", "JDT", "WIS", "SIR", "BAR", "1MA", "2MA"}

\* dict.get(key, default)
DictGet(d, k, default) == IF k \in DOMAIN d THEN d[k] ELSE default

RECURSIVE SumOver(_, _)
\* sum(f[k] for k in S)
SumOver(f, S) ==
    IF S = {} THEN 0
    ELSE LET k == CHOOSE x \in S : TRUE IN f[k] + SumOver(f, S \ {k})

\* The cross-reference variables of a specification that does not use them.
XIdle ==
    /\ store_edges = {}
    /\ source_filter = [given |-> FALSE, sources |-> {}]
    /\ crossrefs = <<>>
    /\ ot_to_nt = <<>>
    /\ nt_to_ot = <<>>

\* The top-verses variables of a specification that does not use them.
TIdle ==
    /\ top_store = {}
    /\ direction = NoneVal
    /\ top_n = {}
    /\ top_verses = <<>>
    /\ lookup_store = {}
    /\ first_expansion = <<>>

\* The run variables of a specification that does not use them.
RIdle ==
    /\ run_kind = NoneVal
    /\ lookups = <<0, 0>>
    /\ ip = 0
    /\ files = <<>>

(***************************************************************************)
(* export_books.py                                                         *)
(***************************************************************************)
\* Results the count query can return: one row per book that has verses.
get_verse_counts_results ==
    UNION {[S -> 1..MaxCount] : S \in SUBSET AllBooks}

\* Any mapping calculate_book_positions may be handed: books may be absent
\* or mapped to 0.
CountMappings == UNION {[S -> 0..MaxCount] : S \in SUBSET AllBooks}

RECURSIVE BookScan(_, _, _)
\* The loop of calculate_book_positions from book i on, current_pos so far.
BookScan(counts, i, current_pos) ==
    IF i > Len(BOOK_ORDER) THEN <<>>
    ELSE LET book_id == BOOK_ORDER[i]
             verse_count == DictGet(counts, book_id, 0)
         IN  <<[id |-> book_id,
                order |-> i,
                testament |-> IF book_id \in OT_BOOKS THEN "OT" ELSE "NT",
                startPosition |-> current_pos,
                endPosition |-> current_pos + verse_count - 1,
                verseCount |-> verse_count,
                isDeuterocanonical |-> book_id \in DEUTEROCANONICAL_BOOKS]>>
             \o BookScan(counts, i + 1, current_pos + verse_count)

\* Fault variant: the end position is computed without the -1.
calculate_book_positions_offbyone(counts) ==
    [i \in 1..Len(BOOK_ORDER) |->
        [BookScan(counts, 1, 0)[i] EXCEPT !.endPosition = @ + 1]]

calculate_book_positions(counts) == BookScan(counts, 1, 0)

\* next(b for b in books if b["id"] == book_id)
FindBook(bs, book_id) == bs[CHOOSE i \in 1..Len(bs) : bs[i].id = book_id]

\* The output structure export_books builds from the count query's result.
export_books_output(counts) ==
    LET total_verses == SumOver(counts, DOMAIN counts)
        bs == calculate_book_positions(counts)
    IN  [bookCount |-> Len(bs),
         totalVerses |-> total_verses,
         otEndPosition |-> FindBook(bs, "MAL").endPosition,
         ntStartPosition |-> FindBook(bs, "MAT").startPosition,
         books |-> bs]

InitBooks ==
    /\ pc = "start"
    /\ verse_counts \in CountMappings
    /\ books = <<>>
    /\ output = NoneVal
    /\ verse_stream = <<>>
    /\ verse_positions = <<>>
    /\ XIdle
    /\ TIdle
    /\ RIdle

\* calculate_book_positions(verse_counts) on an arbitrary count mapping.
CalculateBookPositions ==
    /\ pc = "start"
    /\ books' = calculate_book_positions(verse_counts)
    /\ pc' = "calculated"
    /\ UNCHANGED <<verse_counts, output, verse_stream, verse_positions, xvars, tvars, rvars>>

\* export_books(): the mapping is what get_verse_counts returned.
ExportBooks ==
    /\ pc = "start"
    /\ verse_counts \in get_verse_counts_results
    /\ output' = export_books_output(verse_counts)
    /\ books' = output'.books
    /\ pc' = "exported"
    /\ UNCHANGED <<verse_counts, verse_stream, verse_positions, xvars, tvars, rvars>>

NextBooks == CalculateBookPositions \/ ExportBooks

SpecBooks == InitBooks /\ [][NextBooks]_vars

(***************************************************************************)
(* C1: the book list of calculate_book_positions is contiguous in          *)
(* canonical order: the first book starts at 0, every book has             *)
(* startPosition <= endPosition + 1 and endPosition = startPosition +      *)
(* verseCount - 1, and every book's endPosition + 1 is its successor's     *)
(* startPosition (a zero-count book is an empty range).                    *)
(***************************************************************************)
C1_Contiguous ==
    pc = "calculated" =>
        /\ Len(books) = Len(BOOK_ORDER)
        /\ books[1].startPosition = 0
        /\ \A i \in 1..Len(books) :
              /\ books[i].id = BOOK_ORDER[i]
              /\ books[i].verseCount = DictGet(verse_counts, BOOK_ORDER[i], 0)
              /\ books[i].startPosition <= books[i].endPosition + 1
              /\ books[i].endPosition
                    = books[i].startPosition + books[i].verseCount - 1
              /\ i < Len(books) =>
                    books[i].endPosition + 1 = books[i + 1].startPosition

\* A zero-count book between two non-empty ones: its range is empty and its
\* successor starts where it starts.
C1_Witness ==
    /\ pc = "calculated"
    /\ books[1].verseCount > 0
    /\ books[2].verseCount = 0
    /\ books[2].endPosition = books[2].startPosition - 1
    /\ books[3].verseCount > 0
    /\ books[3].startPosition = books[2].startPosition

(***************************************************************************)
(* C2: in the dataset export_books builds, the sum of verseCount over the  *)
(* exported books equals totalVerses and, when the corpus is non-empty,    *)
(* both equal the last book's endPosition + 1, whatever book ids the count *)
(* query returned.                                                         *)
(***************************************************************************)
BooksVerseCountSum(bs) ==
    SumOver([i \in 1..Len(bs) |-> bs[i].verseCount], 1..Len(bs))

C2_TotalsAgree ==
    pc = "exported" =>
        /\ BooksVerseCountSum(output.books) = output.totalVerses
        /\ output.totalVerses > 0 =>
              output.totalVerses
                 = output.books[Len(output.books)].endPosition + 1

(***************************************************************************)
(* export_crossrefs.py: build_verse_positions                              *)
(***************************************************************************)
\* Book ids in the order string comparison (ORDER BY v.book_id) gives them.
BookIdsSorted == <<"MAL", "MAT", "TOB", "XXX">>

StrRank(b) == CHOOSE i \in 1..Len(BookIdsSorted) : BookIdsSorted[i] = b

\* ORDER BY book_id, chapter, verse: u may be returned before v.
QueryOrderLeq(u, v) ==
    \/ StrRank(u.book) < StrRank(v.book)
    \/ /\ u.book = v.book
       /\ \/ u.chapter < v.chapter
          \/ u.chapter = v.chapter /\ u.verse <= v.verse

VerseKeys == [book : AllBooks, chapter : 1..MaxChapter, verse : 1..MaxVerseNo]

\* The count query on the corpus the enumeration observes: one row per book
\* id that has verses.
CountQuery(stream) ==
    [b \in {stream[i].book : i \in DOMAIN stream} |->
        Cardinality({i \in DOMAIN stream : stream[i].book = b})]

\* d[k] = v on a dict
DictSet(d, k, v) ==
    [x \in (DOMAIN d) \cup {k} |-> IF x = k THEN v ELSE d[x]]

RECURSIVE StartScan(_, _, _, _)
\* The loop over BOOK_ORDER from book i on: <<book_start_positions, current_pos>>.
StartScan(counts, i, starts, current_pos) ==
    IF i > Len(BOOK_ORDER) THEN <<starts, current_pos>>
    ELSE StartScan(counts, i + 1,
                   DictSet(starts, BOOK_ORDER[i], current_pos),
                   current_pos + DictGet(counts, BOOK_ORDER[i], 0))

\* Fault variant: start positions accumulated in book-id string order.
RECURSIVE StartScanByString(_, _, _, _)
StartScanByString(counts, i, starts, current_pos) ==
    IF i > Len(BookIdsSorted) THEN starts
    ELSE IF BookIdsSorted[i] \in NT_BOOKS \cup OT_BOOKS
         THEN StartScanByString(counts, i + 1,
                   DictSet(starts, BookIdsSorted[i], current_pos),
                   current_pos + DictGet(counts, BookIdsSorted[i], 0))
         ELSE StartScanByString(counts, i + 1, starts, current_pos)

book_start_positions_bystring(counts) == StartScanByString(counts, 1, <<>>, 0)

book_start_positions(counts) == StartScan(counts, 1, <<>>, 0)[1]

\* current_pos after the loop over BOOK_ORDER.
RunningTotal(counts) == StartScan(counts, 1, <<>>, 0)[2]

\* Fault variant: the per-book counter is never incremented.
CounterStep_stuck(counter, book) == counter

\* book_verse_counter[book] += 1
CounterStep(counter, book) == [counter EXCEPT ![book] = @ + 1]

RECURSIVE AssignScan(_, _, _, _, _)
\* The loop over the enumeration's rows from row i on.
AssignScan(stream, i, starts, counter, positions) ==
    IF i > Len(stream) THEN positions
    ELSE LET record == stream[i]
             book == record.book
         IN  IF book \in DOMAIN starts
             THEN AssignScan(stream, i + 1, starts,
                             CounterStep(counter, book),
                             DictSet(positions, record.verse_id,
                                     starts[book] + counter[book]))
             ELSE AssignScan(stream, i + 1, starts, counter, positions)

build_verse_positions(stream) ==
    AssignScan(stream, 1, book_start_positions(CountQuery(stream)),
               [i \in {BOOK_ORDER[j] : j \in 1..Len(BOOK_ORDER)} |-> 0], <<>>)

InitVerses ==
    /\ pc = "start"
    /\ verse_stream = <<>>
    /\ verse_counts = <<>>
    /\ verse_positions = <<>>
    /\ books = <<>>
    /\ output = NoneVal
    /\ XIdle
    /\ TIdle
    /\ RIdle

\* The store holds one more verse, with a fresh id; the enumeration returns
\* the rows ordered by the ORDER BY key (rows with equal keys in either
\* order), so the new row is one that may come last.  A verse's id is its
\* row number.
StoreVerse ==
    /\ pc = "start"
    /\ Len(verse_stream) < MaxVerses
    /\ \E k \in VerseKeys :
          /\ IF verse_stream = <<>> THEN TRUE
             ELSE QueryOrderLeq(verse_stream[Len(verse_stream)], k)
          /\ verse_stream' = Append(verse_stream,
                 [verse_id |-> Len(verse_stream) + 1, book |-> k.book,
                  chapter |-> k.chapter, verse |-> k.verse])
    /\ UNCHANGED <<pc, verse_counts, verse_positions, books, output, xvars, tvars, rvars>>

\* build_verse_positions(conn): both queries observe the same corpus.
BuildVersePositions ==
    /\ pc = "start"
    /\ verse_counts' = CountQuery(verse_stream)
    /\ verse_positions' = build_verse_positions(verse_stream)
    /\ pc' = "indexed"
    /\ UNCHANGED <<verse_stream, books, output, xvars, tvars, rvars>>

NextVerses == StoreVerse \/ BuildVersePositions

SpecVerses == InitVerses /\ [][NextVerses]_vars

CanonicalBooks == {BOOK_ORDER[i] : i \in 1..Len(BOOK_ORDER)}

BookOrderOf(b) == CHOOSE i \in 1..Len(BOOK_ORDER) : BOOK_ORDER[i] = b

\* Ids of the enumerated verses whose book is in the canonical order.
CanonicalVerseIds ==
    {verse_stream[i].verse_id :
        i \in {j \in DOMAIN verse_stream : verse_stream[j].book \in CanonicalBooks}}

(***************************************************************************)
(* C3: with both queries on the same corpus and distinct verse ids,        *)
(* verse_positions is a bijection between the verses whose book is in the  *)
(* canonical order and 0..T-1, T the running total after the book scan;    *)
(* verses of other books get no position.                                  *)
(***************************************************************************)
C3_Bijection ==
    pc = "indexed" =>
        /\ DOMAIN verse_positions = CanonicalVerseIds
        /\ \A a, b \in DOMAIN verse_positions :
              a # b => verse_positions[a] # verse_positions[b]
        /\ {verse_positions[a] : a \in DOMAIN verse_positions}
              = 0..(RunningTotal(verse_counts) - 1)

\* Verses of two canonical books and one verse of a book outside the order.
C3_Witness ==
    /\ pc = "indexed"
    /\ \E i, j, k \in DOMAIN verse_stream :
          /\ verse_stream[i].book = "TOB"
          /\ verse_stream[j].book = "MAL"
          /\ verse_stream[k].book = "XXX"
          /\ verse_stream[k].verse_id \notin DOMAIN verse_positions
    /\ Cardinality(DOMAIN verse_positions) = 2

\* (bookOrder, chapter, verse) of u is lexicographically below that of v.
CanonicalKeyLess(u, v) ==
    \/ BookOrderOf(u.book) < BookOrderOf(v.book)
    \/ /\ u.book = v.book
       /\ \/ u.chapter < v.chapter
          \/ u.chapter = v.chapter /\ u.verse < v.verse

(***************************************************************************)
(* C4: positions increase with the canonical key: for positioned verses u  *)
(* and v, (bookOrder, chapter, verse) of u below that of v implies         *)
(* position(u) < position(v), the rows arriving ordered by (book_id        *)
(* string, chapter, verse).                                                *)
(***************************************************************************)
C4_Monotonic ==
    pc = "indexed" =>
        \A i, j \in DOMAIN verse_stream :
            (/\ verse_stream[i].book \in CanonicalBooks
             /\ verse_stream[j].book \in CanonicalBooks
             /\ CanonicalKeyLess(verse_stream[i], verse_stream[j]))
            => verse_positions[verse_stream[i].verse_id]
                  < verse_positions[verse_stream[j].verse_id]

\* A Tobit verse is returned after a Malachi verse (string order) and still
\* gets the smaller position; two verses of one book differ in chapter.
C4_Witness ==
    /\ pc = "indexed"
    /\ \E i, j, k \in DOMAIN verse_stream :
          /\ i < j /\ j < k
          /\ verse_stream[i].book = "MAL"
          /\ verse_stream[j].book = "TOB"
          /\ verse_stream[k].book = "TOB"
          /\ verse_stream[j].chapter < verse_stream[k].chapter
          /\ verse_positions[verse_stream[j].verse_id]
                < verse_positions[verse_stream[i].verse_id]

(***************************************************************************)
(* export_crossrefs.py: query_crossrefs, filter_cross_testament            *)
(***************************************************************************)
\* Verse nodes the edges connect: one per book id, two OT, one NT, one of a
\* book outside the canonical order.
XrefVerses ==
    {[id |-> "TOB-1-1", book |-> "TOB"], [id |-> "MAL-1-1", book |-> "MAL"],
     [id |-> "MAT-1-1", book |-> "MAT"], [id |-> "XXX-1-1", book |-> "XXX"]}

\* r.sources of an edge.
EdgeSources == {{"TSK"}, {"Haydock", "TSK"}}

XrefEdges == [from : XrefVerses, to : XrefVerses, sources : EdgeSources, votes : {1}]

\* source_filter arguments: None, [] and ['Haydock'].
SourceFilters ==
    {[given |-> FALSE, sources |-> {}], [given |-> TRUE, sources |-> {}],
     [given |-> TRUE, sources |-> {"Haydock"}]}

\* A position for each verse id.
XrefPosition ==
    [id \in {v.id : v \in XrefVerses} |->
        CASE id = "TOB-1-1" -> 0 [] id = "MAL-1-1" -> 1
          [] id = "MAT-1-1" -> 2 [] OTHER -> 3]

\* Position indexes: any subset of the verse ids, each with its position.
PositionIndexes ==
    {[id \in D |-> XrefPosition[id]] : D \in SUBSET {v.id : v \in XrefVerses}}

\* Python truthiness of source_filter: None and [] are false.
Truthy(f) == f.given /\ f.sources # {}

\* The WHERE clause of the query: any(s IN r.sources WHERE s IN $sources).
MatchesSources(e, f) ==
    IF Truthy(f) THEN e.sources \cap f.sources # {} ELSE TRUE

\* All orders in which the store may return the rows of a set.
RowOrders(S) ==
    {q \in [1..Cardinality(S) -> S] : \A i, j \in DOMAIN q : i # j => q[i] # q[j]}

\* One element of the crossrefs list.
CrossrefRecord(e, positions) ==
    [fromId |-> e.from.id, fromBook |-> e.from.book,
     fromPosition |-> positions[e.from.id],
     toId |-> e.to.id, toBook |-> e.to.book,
     toPosition |-> positions[e.to.id],
     sources |-> e.sources, votes |-> e.votes]

RECURSIVE CrossrefScan(_, _, _)
\* The loop of query_crossrefs over the returned rows from row i on.
CrossrefScan(rows, i, positions) ==
    IF i > Len(rows) THEN <<>>
    ELSE IF rows[i].from.id \notin DOMAIN positions
            \/ rows[i].to.id \notin DOMAIN positions
         THEN CrossrefScan(rows, i + 1, positions)
         ELSE <<CrossrefRecord(rows[i], positions)>>
                 \o CrossrefScan(rows, i + 1, positions)

\* query_crossrefs on the rows the store returned for the filter.
query_crossrefs(rows, positions) == CrossrefScan(rows, 1, positions)

RECURSIVE TestamentScan(_, _)
\* The loop of filter_cross_testament from element i on: <<ot_to_nt, nt_to_ot>>.
TestamentScan(refs, i) ==
    IF i > Len(refs) THEN <<<<>>, <<>>>>
    ELSE LET rest == TestamentScan(refs, i + 1)
             from_is_ot == refs[i].fromBook \in OT_BOOKS
             to_is_ot == refs[i].toBook \in OT_BOOKS
         IN  IF from_is_ot /\ ~to_is_ot
             THEN <<<<refs[i]>> \o rest[1], rest[2]>>
             ELSE IF ~from_is_ot /\ to_is_ot
                  THEN <<rest[1], <<refs[i]>> \o rest[2]>>
                  ELSE rest

\* Fault variant: the second branch tests only the target's testament.
filter_cross_testament_targetonly(refs) ==
    <<SelectSeq(refs, LAMBDA r : r.fromBook \in OT_BOOKS /\ r.toBook \notin OT_BOOKS),
      SelectSeq(refs, LAMBDA r : r.toBook \in OT_BOOKS)>>

filter_cross_testament(refs) == TestamentScan(refs, 1)

InitXref ==
    /\ pc = "start"
    /\ verse_counts = <<>>
    /\ books = <<>>
    /\ output = NoneVal
    /\ verse_stream = <<>>
    /\ verse_positions = <<>>
    /\ XIdle
    /\ TIdle
    /\ RIdle

\* The store holds one more cross-reference edge.
StoreEdge ==
    /\ pc = "start"
    /\ Cardinality(store_edges) < MaxEdges
    /\ \E e \in XrefEdges \ store_edges : store_edges' = store_edges \cup {e}
    /\ UNCHANGED <<pc, verse_counts, books, output, verse_stream,
                   verse_positions, source_filter, crossrefs, ot_to_nt, nt_to_ot,
                   tvars, rvars>>

\* query_crossrefs(conn, verse_positions, source_filter) followed by
\* filter_cross_testament(crossrefs).
ClassifyCrossrefs ==
    /\ pc = "start"
    /\ \E positions \in PositionIndexes, f \in SourceFilters :
          \E rows \in RowOrders({e \in store_edges : MatchesSources(e, f)}) :
              /\ verse_positions' = positions
              /\ source_filter' = f
              /\ crossrefs' = query_crossrefs(rows, positions)
              /\ ot_to_nt' = filter_cross_testament(crossrefs')[1]
              /\ nt_to_ot' = filter_cross_testament(crossrefs')[2]
    /\ pc' = "classified"
    /\ UNCHANGED <<verse_counts, books, output, verse_stream, store_edges,
                   tvars, rvars>>

NextXref == StoreEdge \/ ClassifyCrossrefs

SpecXref == InitXref /\ [][NextXref]_vars

Range(q) == {q[i] : i \in DOMAIN q}

\* testament of a book id, as the exports classify it (OT iff in OT_BOOKS).
Testament(b) == IF b \in OT_BOOKS THEN "OT" ELSE "NT"

\* The edges that pass the source filter, have both endpoints in the
\* position index and join different testaments, from testament t.
ExpectedFrom(t) ==
    {CrossrefRecord(e, verse_positions) :
        e \in {x \in store_edges :
                 /\ (~source_filter.given \/ source_filter.sources = {}
                       \/ x.sources \cap source_filter.sources # {})
                 /\ x.from.id \in DOMAIN verse_positions
                 /\ x.to.id \in DOMAIN verse_positions
                 /\ Testament(x.from.book) # Testament(x.to.book)
                 /\ Testament(x.from.book) = t}}

(***************************************************************************)
(* C5: the two lists of query_crossrefs followed by filter_cross_testament *)
(* are disjoint and together hold exactly the edges that pass the source   *)
(* filter, have both endpoints in the position index and join different    *)
(* testaments: OT-to-NT edges only in the first list, NT-to-OT edges only  *)
(* in the second, same-testament edges in neither.                         *)
(***************************************************************************)
C5_Partition ==
    pc = "classified" =>
        /\ Range(ot_to_nt) \cap Range(nt_to_ot) = {}
        /\ Range(ot_to_nt) = ExpectedFrom("OT")
        /\ Range(nt_to_ot) = ExpectedFrom("NT")
        /\ Len(ot_to_nt) = Cardinality(Range(ot_to_nt))
        /\ Len(nt_to_ot) = Cardinality(Range(nt_to_ot))

\* A filter is set; one edge is kept in the OT->NT list and a same-testament
\* edge that passed the filter and has positions is in neither list.
C5_Witness ==
    /\ pc = "classified"
    /\ source_filter.sources = {"Haydock"}
    /\ Len(ot_to_nt) = 1
    /\ nt_to_ot = <<>>
    /\ Len(crossrefs) = 2
    /\ \E i \in DOMAIN crossrefs :
          crossrefs[i].fromBook = "TOB" /\ crossrefs[i].toBook = "MAL"

(***************************************************************************)
(* export_top_verses.py: get_top_verses_per_book, expand_passage_groups    *)
(***************************************************************************)
Verse(id, book, chapter, verse) ==
    [id |-> id, book |-> book, chapter |-> chapter, verse |-> verse,
     text |-> "text"]

\* Source and target verse nodes of the edges.
TopFromVerses == {Verse("MAT-1-1", "MAT", 1, 1), Verse("MAT-1-2", "MAT", 1, 2)}

TopToVerses ==
    {Verse("TOB-1-1", "TOB", 1, 1), Verse("MAL-1-1", "MAL", 1, 1),
     Verse("MAL-1-2", "MAL", 1, 2)}

\* r.passage_group: null or a group id.
PassageGroups == {NoneVal, "g"}

TopEdges ==
    [from : TopFromVerses, to : TopToVerses, sources : EdgeSources,
     passage_group : PassageGroups]

\* SOURCE_FILTER = ['Haydock'], the filter export_top_verses passes.
SOURCE_FILTER == [given |-> TRUE, sources |-> {"Haydock"}]

Directions == {"ot_to_nt", "nt_to_ot"}

from_books(dir) == IF dir = "ot_to_nt" THEN OT_BOOKS ELSE NT_BOOKS

to_books(dir) == IF dir = "ot_to_nt" THEN NT_BOOKS ELSE OT_BOOKS

\* The WHERE clause of the top-verses query.
TopQueryMatches(e, dir, f) ==
    /\ e.from.book \in from_books(dir)
    /\ e.to.book \in to_books(dir)
    /\ (~Truthy(f) \/ e.sources \cap f.sources # {})

\* The target appended for one row.
TargetOf(e) ==
    [to_id |-> e.to.id, to_book |-> e.to.book, to_text |-> e.to.text,
     passage_group |-> e.passage_group]

\* Index of from_id in the list of aggregates, 0 when it has none yet.
RefIndex(refs, from_id) ==
    IF \E i \in DOMAIN refs : refs[i].from_id = from_id
    THEN CHOOSE i \in DOMAIN refs : refs[i].from_id = from_id
    ELSE 0

RECURSIVE AggregateScan(_, _, _)
\* The loop over the rows from row i on; verse_refs is kept as the list of
\* its values in insertion order.
AggregateScan(rows, i, refs) ==
    IF i > Len(rows) THEN refs
    ELSE LET e == rows[i]
             k == RefIndex(refs, e.from.id)
             seeded ==
                 IF k = 0
                 THEN Append(refs, [from_id |-> e.from.id,
                                    from_book |-> e.from.book,
                                    from_text |-> e.from.text,
                                    targets |-> <<>>, count |-> 0])
                 ELSE refs
             j == IF k = 0 THEN Len(seeded) ELSE k
         IN  AggregateScan(rows, i + 1,
                 [seeded EXCEPT ![j].targets = Append(@, TargetOf(e)),
                                ![j].count = @ + 1])

\* Fault variant: x goes in front of the elements whose count is not above its own
\* (an ascending sort, reverse=True left out).
InsertByCount_ascending(sorted, x) ==
    LET k == Cardinality({i \in DOMAIN sorted : sorted[i].count <= x.count})
    IN  SubSeq(sorted, 1, k) \o <<x>> \o SubSeq(sorted, k + 1, Len(sorted))

\* x placed into a list sorted by descending count, behind the elements
\* whose count is not below its own (the sort is stable).
InsertByCount(sorted, x) ==
    LET k == Cardinality({i \in DOMAIN sorted : sorted[i].count >= x.count})
    IN  SubSeq(sorted, 1, k) \o <<x>> \o SubSeq(sorted, k + 1, Len(sorted))

RECURSIVE SortByCountDesc(_)
\* sorted(verses, key=lambda x: x["count"], reverse=True)
SortByCountDesc(verses) ==
    IF verses = <<>> THEN <<>>
    ELSE InsertByCount(SortByCountDesc(SubSeq(verses, 1, Len(verses) - 1)),
                       verses[Len(verses)])

\* sorted_verses[:TOP_N_PER_BOOK], or sorted_verses when the limit is None.
TakeTop(sorted_verses, limit) ==
    IF limit = {} THEN sorted_verses
    ELSE LET n == CHOOSE x \in limit : TRUE
         IN  SubSeq(sorted_verses, 1, IF n < Len(sorted_verses) THEN n
                                      ELSE Len(sorted_verses))

\* get_top_verses_per_book on the rows the store returned.
get_top_verses_per_book(rows, limit) ==
    LET verse_refs == AggregateScan(rows, 1, <<>>)
        book_ids == {verse_refs[i].from_book : i \in DOMAIN verse_refs}
    IN  [book_id \in book_ids |->
            TakeTop(SortByCountDesc(
                        SelectSeq(verse_refs, LAMBDA a : a.from_book = book_id)),
                    limit)]

\* The (from_id, passage_group) pairs of the targets that carry a group.
passage_groups_to_fetch(verses_data) ==
    UNION {UNION {{<<verses_data[b][i].from_id,
                     verses_data[b][i].targets[j].passage_group>> :
                      j \in {t \in DOMAIN verses_data[b][i].targets :
                               verses_data[b][i].targets[t].passage_group # NoneVal}} :
                  i \in DOMAIN verses_data[b]} :
           b \in DOMAIN verses_data}

\* Rows of the member query: the edges of the source verse in the group.
MemberEdges(store, source_id, pg) ==
    {e \in store : e.from.id = source_id /\ e.passage_group = pg}

\* The member query's result: one row per edge, ORDER BY target.book_id,
\* target.chapter, target.verse.  Rows with equal keys are equal rows here.
MemberRows(store, source_id, pg) ==
    LET S == MemberEdges(store, source_id, pg)
        q == CHOOSE q \in RowOrders(S) :
                \A i \in 1..(Len(q) - 1) : QueryOrderLeq(q[i].to, q[i + 1].to)
    IN  [i \in DOMAIN q |-> [id |-> q[i].to.id, text |-> q[i].to.text]]

\* passage_group_members after the lookups.
passage_group_members(store, verses_data) ==
    [key \in passage_groups_to_fetch(verses_data) |->
        MemberRows(store, key[1], key[2])]

\* Fault variant: the members are appended to those the target already carries.
AttachMembers_append(target, members) ==
    DictSet(target, "passage_members",
            DictGet(target, "passage_members", <<>>) \o members)

\* target["passage_members"] = members
AttachMembers(target, members) == DictSet(target, "passage_members", members)

\* The update loop body for one target of the aggregate of from_id.
UpdateTarget(target, from_id, members_of) ==
    IF target.passage_group # NoneVal
    THEN IF <<from_id, target.passage_group>> \in DOMAIN members_of
         THEN AttachMembers(target, members_of[<<from_id, target.passage_group>>])
         ELSE target
    ELSE target

\* expand_passage_groups(verses_data, conn) against the store.
expand_passage_groups(verses_data, store) ==
    IF passage_groups_to_fetch(verses_data) = {} THEN verses_data
    ELSE LET members_of == passage_group_members(store, verses_data)
         IN  [b \in DOMAIN verses_data |->
                [i \in DOMAIN verses_data[b] |->
                    [verses_data[b][i] EXCEPT !.targets =
                        [j \in DOMAIN @ |->
                            UpdateTarget(@[j], verses_data[b][i].from_id,
                                         members_of)]]]]

InitTop ==
    /\ pc = "start"
    /\ verse_counts = <<>>
    /\ books = <<>>
    /\ output = NoneVal
    /\ verse_stream = <<>>
    /\ verse_positions = <<>>
    /\ XIdle
    /\ TIdle
    /\ RIdle

TopIdle ==
    <<verse_counts, books, output, verse_stream, verse_positions, xvars, rvars>>

\* The store holds one more cross-reference edge.
StoreTopEdge ==
    /\ pc = "start"
    /\ Cardinality(top_store) < MaxTopEdges
    /\ \E e \in TopEdges \ top_store : top_store' = top_store \cup {e}
    /\ UNCHANGED <<pc, direction, top_n, top_verses, lookup_store,
                   first_expansion, TopIdle>>

\* get_top_verses_per_book(conn, direction, SOURCE_FILTER), with
\* TOP_N_PER_BOOK either None or a limit.
GetTopVersesPerBook ==
    /\ pc = "start"
    /\ \E dir \in Directions, limit \in {{}} \cup {{n} : n \in 0..MaxTopN} :
          \E rows \in RowOrders({e \in top_store :
                                   TopQueryMatches(e, dir, SOURCE_FILTER)}) :
              /\ direction' = dir
              /\ top_n' = limit
              /\ top_verses' = get_top_verses_per_book(rows, limit)
    /\ lookup_store' = top_store
    /\ pc' = "ranked"
    /\ UNCHANGED <<top_store, first_expansion, TopIdle>>

\* Between the two queries the store loses every edge of one passage group
\* of one source verse (the exports read without a transaction).
StoreDeletesGroup ==
    /\ pc = "ranked"
    /\ \E v \in TopFromVerses, pg \in PassageGroups \ {NoneVal} :
          /\ MemberEdges(lookup_store, v.id, pg) # {}
          /\ lookup_store' = lookup_store \ MemberEdges(lookup_store, v.id, pg)
    /\ UNCHANGED <<pc, top_store, direction, top_n, top_verses,
                   first_expansion, TopIdle>>

\* expand_passage_groups(verses_data, conn) on the ranked aggregates.
ExpandPassageGroups ==
    /\ pc = "ranked"
    /\ top_verses' = expand_passage_groups(top_verses, lookup_store)
    /\ first_expansion' = top_verses'
    /\ pc' = "expanded"
    /\ UNCHANGED <<top_store, direction, top_n, lookup_store, TopIdle>>

\* expand_passage_groups applied to its own output, the store unchanged.
ExpandAgain ==
    /\ pc = "expanded"
    /\ top_verses' = expand_passage_groups(top_verses, lookup_store)
    /\ pc' = "reexpanded"
    /\ UNCHANGED <<top_store, direction, top_n, lookup_store, first_expansion,
                   TopIdle>>

NextTop ==
    \/ StoreTopEdge
    \/ GetTopVersesPerBook
    \/ StoreDeletesGroup
    \/ ExpandPassageGroups
    \/ ExpandAgain

SpecTop == InitTop /\ [][NextTop]_vars

\* Number of rows the top-verses query returned for a source verse.
MatchCount(from_id) ==
    Cardinality({e \in top_store :
                    /\ e.from.id = from_id
                    /\ TopQueryMatches(e, direction, SOURCE_FILTER)})

(***************************************************************************)
(* C6: for every book of get_top_verses_per_book's output the counts are   *)
(* non-increasing along the list; with a top-N limit the list has at most  *)
(* N entries and every aggregate of the book that was left out has a count *)
(* not above the count of any aggregate that was kept.                     *)
(***************************************************************************)
C6_Ranked ==
    pc = "ranked" =>
        \A b \in DOMAIN top_verses :
            LET kept == top_verses[b]
                kept_ids == {kept[i].from_id : i \in DOMAIN kept}
                left_out == {v \in TopFromVerses :
                                /\ v.book = b
                                /\ MatchCount(v.id) > 0
                                /\ v.id \notin kept_ids}
            IN  /\ \A i \in DOMAIN kept :
                      /\ kept[i].from_book = b
                      /\ kept[i].count = MatchCount(kept[i].from_id)
                      /\ kept[i].count = Len(kept[i].targets)
                /\ \A i \in 1..(Len(kept) - 1) : kept[i].count >= kept[i + 1].count
                /\ top_n = {} => left_out = {}
                /\ \A n \in top_n :
                      /\ Len(kept) <= n
                      /\ Len(kept) < n => left_out = {}
                      /\ \A v \in left_out, i \in DOMAIN kept :
                            MatchCount(v.id) <= kept[i].count

\* Limit 1, one book with a count-2 and a count-1 source verse: only the
\* count-2 aggregate is kept.
C6_Witness ==
    /\ pc = "ranked"
    /\ top_n = {1}
    /\ "MAT" \in DOMAIN top_verses
    /\ Len(top_verses["MAT"]) = 1
    /\ top_verses["MAT"][1].count = 2
    /\ \E v \in TopFromVerses : MatchCount(v.id) = 1

\* Every target of verses_data, with the from_id of its aggregate.
TargetsOf(verses_data) ==
    UNION {UNION {{[from_id |-> verses_data[b][i].from_id,
                    target |-> verses_data[b][i].targets[j]] :
                      j \in DOMAIN verses_data[b][i].targets} :
                  i \in DOMAIN verses_data[b]} :
           b \in DOMAIN verses_data}

(***************************************************************************)
(* C8: when the member lookup for a (source verse id, passage group) pair  *)
(* returns no members, every target carrying that pair is left without a   *)
(* passage_members key.                                                    *)
(***************************************************************************)
C8_EmptyGroupNotAttached ==
    pc = "expanded" =>
        \A t \in TargetsOf(top_verses) :
            (/\ t.target.passage_group # NoneVal
             /\ MemberRows(lookup_store, t.from_id, t.target.passage_group) = <<>>)
            => "passage_members" \notin DOMAIN t.target

VerseOfId(id) == CHOOSE v \in TopFromVerses \cup TopToVerses : v.id = id

(***************************************************************************)
(* C9: the member list attached to a target is ordered by the members'     *)
(* canonical key (canonical book order, chapter, verse): a member of a     *)
(* book earlier in the canonical order precedes every member of a later    *)
(* book.                                                                   *)
(***************************************************************************)
C9_MembersCanonicalOrder ==
    pc = "expanded" =>
        \A t \in TargetsOf(top_verses) :
            "passage_members" \in DOMAIN t.target =>
                LET members == t.target.passage_members
                IN  \A x, y \in DOMAIN members :
                        x < y => ~CanonicalKeyLess(VerseOfId(members[y].id),
                                                  VerseOfId(members[x].id))

(***************************************************************************)
(* C10: expand_passage_groups is idempotent: against an unchanged store,   *)
(* applying it to its own output yields a structure equal to that output.  *)
(***************************************************************************)
C10_Idempotent ==
    pc = "reexpanded" => top_verses = first_expansion

\* The second application met a target that already carried a non-empty
\* member list, next to a target without a passage group.
C10_Witness ==
    /\ pc = "reexpanded"
    /\ \E t, u \in TargetsOf(first_expansion) :
          /\ "passage_members" \in DOMAIN t.target
          /\ Len(t.target.passage_members) = 2
          /\ u.target.passage_group = NoneVal

(***************************************************************************)
(* The three export runs, step by step: export_books, export_crossrefs,    *)
(* export_top_verses.  A step is a call that reaches the graph store       *)
(* (connect, query), the creation of the output directory, the opening of  *)
(* an output file for writing, or the closing of the connection.           *)
(***************************************************************************)
Step(op, arg) == [op |-> op, arg |-> arg]

OutputFiles ==
    {"books.json", "crossrefs-ot-to-nt.json", "crossrefs-nt-to-ot.json",
     "top-verses.json"}

RunKinds == {"export_books", "export_crossrefs", "export_top_verses"}

\* n steps of the member query of expand_passage_groups.
LookupSteps(n) == [i \in 1..n |-> Step("query", "passage_group_members")]

export_books_steps ==
    <<Step("connect", "neo4j"),
      Step("query", "verse_counts"),
      Step("mkdir", "data"),
      Step("open", "books.json"),
      Step("close", "neo4j")>>

\* Fault variant: the first file is written before the cross-references are
\* queried.
export_crossrefs_steps_early ==
    <<Step("connect", "neo4j"),
      Step("query", "verse_counts"),
      Step("query", "verses"),
      Step("mkdir", "data"),
      Step("open", "crossrefs-ot-to-nt.json"),
      Step("query", "crossrefs"),
      Step("open", "crossrefs-nt-to-ot.json"),
      Step("close", "neo4j")>>

export_crossrefs_steps ==
    <<Step("connect", "neo4j"),
      Step("query", "verse_counts"),
      Step("query", "verses"),
      Step("query", "crossrefs"),
      Step("mkdir", "data"),
      Step("open", "crossrefs-ot-to-nt.json"),
      Step("open", "crossrefs-nt-to-ot.json"),
      Step("close", "neo4j")>>

\* n1, n2: passage groups of the OT->NT and of the NT->OT aggregates.
export_top_verses_steps(n1, n2) ==
    <<Step("connect", "neo4j"), Step("query", "top_verses ot_to_nt")>>
    \o LookupSteps(n1)
    \o <<Step("query", "top_verses nt_to_ot")>>
    \o LookupSteps(n2)
    \o <<Step("mkdir", "data"),
         Step("open", "top-verses.json"),
         Step("close", "neo4j")>>

RunSteps ==
    CASE run_kind = "export_books" -> export_books_steps
      [] run_kind = "export_crossrefs" -> export_crossrefs_steps
      [] OTHER -> export_top_verses_steps(lookups[1], lookups[2])

InitRun ==
    /\ pc = "running"
    /\ run_kind \in RunKinds
    /\ lookups \in (0..MaxLookups) \X (0..MaxLookups)
    /\ run_kind # "export_top_verses" => lookups = <<0, 0>>
    /\ ip = 1
    /\ files \in [OutputFiles -> {"absent", "old"}]
    /\ verse_counts = <<>>
    /\ books = <<>>
    /\ output = NoneVal
    /\ verse_stream = <<>>
    /\ verse_positions = <<>>
    /\ XIdle
    /\ TIdle

RunIdle ==
    <<verse_counts, books, output, verse_stream, verse_positions, xvars, tvars,
      run_kind, lookups>>

\* conn.connect() or session.run(...) returns.
StoreAnswers ==
    /\ pc = "running"
    /\ RunSteps[ip].op \in {"connect", "query"}
    /\ ip' = ip + 1
    /\ UNCHANGED <<pc, files, RunIdle>>

\* conn.connect() or session.run(...) raises: the exception leaves the
\* export function (through finally: conn.close() once inside the try).
StoreFails ==
    /\ pc = "running"
    /\ RunSteps[ip].op \in {"connect", "query"}
    /\ pc' = "aborted"
    /\ UNCHANGED <<ip, files, RunIdle>>

\* OUTPUT_DIR.mkdir(parents=True, exist_ok=True)
MakeOutputDir ==
    /\ pc = "running"
    /\ RunSteps[ip].op = "mkdir"
    /\ ip' = ip + 1
    /\ UNCHANGED <<pc, files, RunIdle>>

\* with open(path, "w") as f: json.dump(...)
WriteFile ==
    /\ pc = "running"
    /\ RunSteps[ip].op = "open"
    /\ files' = [files EXCEPT ![RunSteps[ip].arg] = "new"]
    /\ ip' = ip + 1
    /\ UNCHANGED <<pc, RunIdle>>

\* finally: conn.close() at the end of a run that did not fail
CloseConnection ==
    /\ pc = "running"
    /\ RunSteps[ip].op = "close"
    /\ pc' = "done"
    /\ ip' = ip + 1
    /\ UNCHANGED <<files, RunIdle>>

NextRun ==
    \/ StoreAnswers
    \/ StoreFails
    \/ MakeOutputDir
    \/ WriteFile
    \/ CloseConnection

SpecRun == InitRun /\ [][NextRun]_vars

(***************************************************************************)
(* C7: in every export run every call to the graph store completes before  *)
(* the first output file is opened for writing, so a run that a connection *)
(* or query failure aborts has written or modified no output file.         *)
(***************************************************************************)
C7_QueriesBeforeFiles ==
    /\ (\E f \in OutputFiles : files[f] = "new") =>
          \A i \in DOMAIN RunSteps :
              RunSteps[i].op \in {"connect", "query"} => i < ip
    /\ pc = "aborted" => \A f \in OutputFiles : files[f] # "new"

\* The last member lookup of export_top_verses fails: four queries were
\* answered before, and the existing top-verses.json is untouched.
C7_Witness ==
    /\ pc = "aborted"
    /\ run_kind = "export_top_verses"
    /\ lookups = <<1, 1>>
    /\ ip = 5
    /\ files["top-verses.json"] = "old"

=============================================================================
